---- MODULE Spec2Model ----
(***************************************************************************)
(* Voice/text command session manager of VOICE-TEXT.                       *)
(*                                                                         *)
(* Two programs live in the repository:                                    *)
(*   - the chat app   (App with VoiceInput / ChatMessage, executeAgent),   *)
(*     checked under Spec / LiveSpec (typed commands), NoTimeoutSpec (a    *)
(*     request may stay pending), TimeSpec (with the wall clock),          *)
(*     StatusSpec (with the status fetch), VoiceSpec (spoken commands),    *)
(*     ResultSpec (recognition events), TextSpec (the text input) and      *)
(*     DisplaySpec (every body ChatMessage distinguishes);                 *)
(*   - the audio app  (App with AudioRecorder / FileUpload, processAudio), *)
(*     checked under AudioSpec, RecordSpec (the recorder alone) and        *)
(*     FileSpec (the file upload alone).                                   *)
(*                                                                         *)
(* React state: a setter queues the new value, which functional updates    *)
(* and the next render see, while a handler reads the value its closure    *)
(* captured at the last render.  A re-render is a step of its own; a       *)
(* callback may be called again before it happens.                         *)
(***************************************************************************)
EXTENDS FiniteSets, Integers, Sequences, TLC

\* ------------------------------------------------------------------ bounds
\* accepted chat submissions explored
MaxSubmits == 2
\* process-audio requests explored
MaxAudioRequests == 2
\* getUserMedia calls explored
MaxStreams == 2
\* ticks of the recording timer explored
MaxRecordingTime == 1
\* half minutes the wall clock advances
MaxClock == 2
\* speech recognizers created
MaxRecognizers == 2
\* results in one recognition event
MaxResults == 2

\* ------------------------------------------------------------------ texts
\* A text is a sequence of one-character strings; " " is whitespace.
Texts == { <<>>, <<" ">>, <<"a">>, <<" ", "b">> }

RECURSIVE TrimLeft(_)
TrimLeft(t) ==
    IF t = <<>> THEN <<>>
    ELSE IF Head(t) = " " THEN TrimLeft(Tail(t)) ELSE t

RECURSIVE TrimRight(_)
TrimRight(t) ==
    IF t = <<>> THEN <<>>
    ELSE IF t[Len(t)] = " " THEN TrimRight(SubSeq(t, 1, Len(t) - 1)) ELSE t

\* String.prototype.trim
Trim(t) == TrimRight(TrimLeft(t))

\* ------------------------------------------------- backend / axios results
\* parsed absent (undefined), and parsed present with no field filled in
NoParsed == [present |-> FALSE, to |-> "", subject |-> "", body |-> ""]
EmptyParsed == [present |-> TRUE, to |-> "", subject |-> "", body |-> ""]

\* agentData absent (Message.agentData is optional)
NoData ==
    [kind |-> "none", success |-> FALSE, action |-> "", message |-> "",
     parsed |-> NoParsed]

\* well-formed AgentResponse bodies
AgentResponses ==
    { [kind |-> "response", success |-> TRUE, action |-> "chat_response",
       message |-> "Hi", parsed |-> EmptyParsed],
      [kind |-> "response", success |-> TRUE, action |-> "email_sent",
       message |-> "Sent.",
       parsed |-> [present |-> TRUE, to |-> "john@example.com",
                   subject |-> "Meeting", body |-> "..."]] }

\* further bodies the renderer can be handed: the other two actions of the
\* backend, an action it does not know, and email_sent without parsed
DisplayBodies ==
    { [kind |-> "response", success |-> FALSE, action |-> "email_failed",
       message |-> "Could not send.",
       parsed |-> [present |-> TRUE, to |-> "john@example.com",
                   subject |-> "Meeting", body |-> "..."]],
      [kind |-> "response", success |-> FALSE, action |-> "need_more_info",
       message |-> "Who is it for?", parsed |-> EmptyParsed],
      [kind |-> "response", success |-> TRUE, action |-> "weather_report",
       message |-> "Sunny.", parsed |-> EmptyParsed],
      [kind |-> "response", success |-> TRUE, action |-> "email_sent",
       message |-> "Sent.", parsed |-> NoParsed] }

\* a 2xx body that is not an AgentResponse: a non-JSON string, JSON null
BodyString ==
    [kind |-> "string", success |-> FALSE, action |-> "", message |-> "",
     parsed |-> NoParsed]
BodyNull ==
    [kind |-> "null", success |-> FALSE, action |-> "", message |-> "",
     parsed |-> NoParsed]

MalformedBodies == { BodyString, BodyNull }

\* What api.post can do: fulfil with a body, reject with an AxiosError
\* (HTTP error carrying response.data.detail, network error carrying only
\* error.message, or neither), reject with something that is no AxiosError.
RawResults ==
    { [kind |-> "ok", data |-> d, detail |-> "", message |-> ""] :
          d \in AgentResponses \cup MalformedBodies }
    \cup
    { [kind |-> "axiosError", data |-> NoData,
       detail |-> "Invalid request",
       message |-> "Request failed with status code 500"],
      [kind |-> "axiosError", data |-> NoData,
       detail |-> "", message |-> "Network Error"],
      [kind |-> "axiosError", data |-> NoData, detail |-> "", message |-> ""],
      [kind |-> "otherError", data |-> NoData, detail |-> "", message |-> ""] }

\* a || b || c on strings: the empty string is falsy
Or3(a, b, c) == IF a # "" THEN a ELSE IF b # "" THEN b ELSE c

\* executeAgent: the settled promise handed to the caller
ExecuteAgent(raw) ==
    IF raw.kind = "ok"
    THEN [thrown |-> FALSE, value |-> raw.data, error |-> ""]
    ELSE IF raw.kind = "axiosError"
    THEN [thrown |-> TRUE, value |-> NoData,
          error |-> Or3(raw.detail, raw.message,
                        "Failed to execute agent command")]
    ELSE [thrown |-> TRUE, value |-> NoData,
          error |-> "Failed to execute agent command"]

\* ------------------------------------------------------------------ state
VARIABLES
    \* chat app, App component state (useState)
    messages,        \* Transcript Log: Message[]
    isProcessing,    \* committed value of the isProcessing state
    showWelcome,     \* committed value of the showWelcome state
    \* chat app, what the last render handed to the handlers
    rIsProcessing,   \* isProcessing as captured by the handleSubmit closure
    \* chat app, environment
    inflight,        \* executeAgent requests started and not yet settled
    \* chat app, bookkeeping of the run (not program state)
    nreq,            \* executeAgent requests issued so far
    completed,       \* round trips whose continuation has run
    escaped,         \* an exception has propagated out of handleSubmit
    ev,              \* the handler that ran last, with its arguments
    now,             \* the wall clock (new Date()), in half minutes of the day
    \* chat app, agent status (useState) and its fetch
    capabilities,    \* committed value of the capabilities state
    isOnline,        \* committed value of the isOnline state
    emailConfigured, \* committed value of the emailConfigured state
    statusFetch,     \* the GET /api/agent/status of fetchStatus: pending,
                     \* ok (a 2xx response) or failed
    statusRequests,  \* getAgentStatus calls issued so far
    \* chat app, VoiceInput state and refs (0 is null)
    isListening,     \* committed value of the isListening state
    transcript,      \* committed value of the transcript state
    recognitionRef,
    isListeningRef,
    \* chat app, what the last render of VoiceInput handed to its handlers
    rIsListening,    \* isListening as rendered (which handler the button calls)
    rTranscript,     \* transcript as captured by the stopListening closure
    \* chat app, environment of VoiceInput
    supported,       \* window.SpeechRecognition || webkitSpeechRecognition exists
    recognizers,     \* the SpeechRecognition objects created so far
    alerted,         \* the "not supported" alert has been shown
    \* chat app, bookkeeping of the run (not program state)
    delivered,       \* per recognizer: onSubmit calls made when it was stopped
    \* audio app, App component state (useState)
    transcription,   \* committed value of the transcription state
    response,        \* committed value of the response state
    aIsProcessing,   \* committed value of the isProcessing state
    error,           \* committed value of the error state ("" is null)
    \* audio app, what the last render handed to the children
    aRIsProcessing,  \* the isProcessing prop of AudioRecorder and FileUpload
    rIsRecording,    \* isRecording as captured by the recorder's handlers
    \* audio app, AudioRecorder state and refs (0 is null)
    isRecording,     \* committed value of the isRecording state
    recordingTime,   \* committed value of the recordingTime state
    mediaRecorderRef,
    audioChunksRef,
    timerRef,
    streamRef,
    mounted,         \* the audio App and its children are mounted
    \* audio app, environment
    streams,         \* getUserMedia calls and the streams they produced
    recorders,       \* MediaRecorder objects, one per granted stream
    timers,          \* intervals set and not yet cleared
    aInflight,       \* processAudio requests started and not yet settled
    \* audio app, bookkeeping of the run (not program state)
    aNreq,           \* processAudio requests issued so far
    lastFile,        \* the File handleFile was called with last
    \* chat app, bookkeeping of the run (not program state)
    lastResult,      \* the result event the last VoiceInput step handled
    textEv,          \* the last step of the text input: op and onSubmit call
    \* chat app, the text input of VoiceInput
    textInput,       \* committed value of the textInput state
    rTextInput       \* textInput as the last render gave it to the handlers

chatVars ==
    << messages, isProcessing, showWelcome, rIsProcessing, inflight,
       nreq, completed, escaped, ev, now >>

\* the chat App without the clock
appVars ==
    << messages, isProcessing, showWelcome, rIsProcessing, inflight, nreq,
       completed, escaped, ev >>

statusVars ==
    << capabilities, isOnline, emailConfigured, statusFetch, statusRequests >>

voiceVars ==
    << isListening, transcript, recognitionRef, isListeningRef, rIsListening,
       rTranscript, supported, recognizers, alerted, delivered,
       lastResult, textInput, rTextInput, textEv >>

\* the text input of VoiceInput
textVars == << textInput, rTextInput, textEv >>

audioVars ==
    << mounted, transcription, response, aIsProcessing, error, aRIsProcessing,
       isRecording, rIsRecording, recordingTime, mediaRecorderRef,
       audioChunksRef, timerRef, streamRef, streams, recorders, timers,
       aInflight, aNreq, lastFile >>

vars == << chatVars, statusVars, voiceVars, audioVars >>

NoRaw == [kind |-> "none", data |-> NoData, detail |-> "", message |-> ""]

Event(op, text, rid, raw) ==
    [op |-> op, text |-> text, rid |-> rid, raw |-> raw]

\* ---------------------------------------------------------------- chat app
\* the wall clock when the app is mounted: 12:59:00 PM
ClockStart == (12 * 60 + 59) * 2

\* App.tsx 186-191: toLocaleTimeString('en-US', {hour: '2-digit',
\* minute: '2-digit'}): the 12-hour clock "hh:mm AM|PM", seconds dropped
FormatTime(t) ==
    LET minutes == (t \div 2) % 1440
        hour24 == minutes \div 60
        hour12 == IF hour24 % 12 = 0 THEN 12 ELSE hour24 % 12
    IN  [hh |-> hour12, mm |-> minutes % 60,
         ampm |-> IF hour24 < 12 THEN "AM" ELSE "PM"]

\* App.tsx 200-205: the user Message (rid is the request it belongs to)
UserMessage(text, rid) ==
    [type |-> "user", text |-> text, agentData |-> NoData, rid |-> rid,
     timestamp |-> FormatTime(now)]

\* the agent Message keeping the action but not the parsed fields
AgentMessage_DropsParsed(result, rid) ==
    [type |-> "agent", text |-> << result.message >>,
     agentData |-> [result EXCEPT !.parsed = NoParsed],
     rid |-> rid, timestamp |-> FormatTime(now)]

\* App.tsx 213-219: the agent Message built from a fulfilled executeAgent
AgentMessage(result, rid) ==
    [type |-> "agent", text |-> << result.message >>, agentData |-> result,
     rid |-> rid, timestamp |-> FormatTime(now)]

\* App.tsx 222-230: the agent Message built in the catch clause
ErrorMessage(err, rid) ==
    [type |-> "agent", text |-> << "Error: ", err >>, agentData |-> NoData,
     rid |-> rid, timestamp |-> FormatTime(now)]

\* a log update that puts the new message in front
SetMessages_Prepend(prev, m) == << m >> \o prev

\* App.tsx 206, 220, 231: setMessages((prev) => [...prev, m])
SetMessages(prev, m) == Append(prev, m)

\* App.tsx 209-220: what the try block hands to the catch clause: the Error
\* executeAgent rejected with, or the TypeError of reading .message of null
TryBlock(res) ==
    IF res.thrown
    THEN [caught |-> TRUE, error |-> res.error]
    ELSE IF res.value.kind = "null"
    THEN [caught |-> TRUE,
          error |-> "Cannot read properties of null (reading 'message')"]
    ELSE [caught |-> FALSE, error |-> ""]

\* a catch clause that handles the errors with a message of their own and
\* rethrows the rest
Catches_OnlyDescribed(err) == err # "Failed to execute agent command"

\* App.tsx 221: catch (error) takes every thrown value
Catches(err) == TRUE

\* the guard testing the text without trimming it
Rejects_Untrimmed(text) == text = <<>> \/ rIsProcessing

\* App.tsx 195: if (!text.trim() || isProcessing) return
\* isProcessing is the value of the render that created the callback
Rejects(text) == Trim(text) = <<>> \/ rIsProcessing

\* App.tsx 193-210: handleSubmit up to the await
HandleSubmit(text) ==
    /\ nreq < MaxSubmits
    /\ ev' = Event("handleSubmit", text, 0, NoRaw)
    /\ IF Rejects(text)
       THEN UNCHANGED << messages, isProcessing, showWelcome, rIsProcessing,
                         inflight, nreq, completed, escaped >>
       ELSE /\ showWelcome' = FALSE
            /\ messages' = SetMessages(messages, UserMessage(text, nreq + 1))
            /\ isProcessing' = TRUE
            /\ inflight' = inflight \cup { [rid |-> nreq + 1, text |-> text] }
            /\ nreq' = nreq + 1
            /\ UNCHANGED << rIsProcessing, completed, escaped >>

\* the continuation with setIsProcessing(false) as the last statement of the
\* try block instead of a finally clause
HandleSubmitResume_NoFinally(req, raw) ==
    LET res == ExecuteAgent(raw)
        try == TryBlock(res)
    IN  /\ req \in inflight
        /\ inflight' = inflight \ { req }
        /\ ev' = Event("resume", req.text, req.rid, raw)
        /\ completed' = completed + 1
        /\ IF ~try.caught
           THEN /\ messages' = SetMessages(messages, AgentMessage(res.value, req.rid))
                /\ UNCHANGED escaped
           ELSE IF Catches(try.error)
           THEN /\ messages' = SetMessages(messages, ErrorMessage(try.error, req.rid))
                /\ UNCHANGED escaped
           ELSE /\ escaped' = TRUE
                /\ UNCHANGED messages
        /\ isProcessing' = (try.caught /\ isProcessing)
        /\ UNCHANGED << showWelcome, rIsProcessing, nreq >>

\* the continuation re-issuing the request when it failed
HandleSubmitResume_Retry(req, raw) ==
    LET res == ExecuteAgent(raw)
        try == TryBlock(res)
    IN  /\ req \in inflight
        /\ inflight' =
              IF try.caught /\ nreq < MaxSubmits
              THEN (inflight \ { req }) \cup { [rid |-> nreq + 1, text |-> req.text] }
              ELSE inflight \ { req }
        /\ ev' = Event("resume", req.text, req.rid, raw)
        /\ completed' = completed + 1
        /\ IF ~try.caught
           THEN /\ messages' = SetMessages(messages, AgentMessage(res.value, req.rid))
                /\ UNCHANGED escaped
           ELSE IF Catches(try.error)
           THEN /\ messages' = SetMessages(messages, ErrorMessage(try.error, req.rid))
                /\ UNCHANGED escaped
           ELSE /\ escaped' = TRUE
                /\ UNCHANGED messages
        /\ isProcessing' = FALSE
        /\ nreq' = IF try.caught /\ nreq < MaxSubmits THEN nreq + 1 ELSE nreq
        /\ UNCHANGED << showWelcome, rIsProcessing >>

\* App.tsx 210-234: the request settles and handleSubmit resumes
HandleSubmitResume(req, raw) ==
    LET res == ExecuteAgent(raw)
        try == TryBlock(res)
    IN  /\ req \in inflight
        /\ inflight' = inflight \ { req }
        /\ ev' = Event("resume", req.text, req.rid, raw)
        /\ completed' = completed + 1
        /\ IF ~try.caught
           THEN /\ messages' = SetMessages(messages, AgentMessage(res.value, req.rid))
                /\ UNCHANGED escaped
           ELSE IF Catches(try.error)
           THEN /\ messages' = SetMessages(messages, ErrorMessage(try.error, req.rid))
                /\ UNCHANGED escaped
           ELSE /\ escaped' = TRUE
                /\ UNCHANGED messages
        /\ isProcessing' = FALSE
        /\ UNCHANGED << showWelcome, rIsProcessing, nreq >>

\* getActionBadge with a default case that shows the action as it came
GetActionBadge_Open(msg) ==
    IF msg.agentData.kind = "none" THEN "none"
    ELSE IF msg.agentData.action = "email_sent" THEN "Email Sent"
    ELSE IF msg.agentData.action = "email_failed" THEN "Failed"
    ELSE IF msg.agentData.action = "need_more_info" THEN "More Info Needed"
    ELSE msg.agentData.action

\* ChatMessage.tsx 34-46: getActionBadge, "none" for null; a body that is a
\* string has no action and takes the default case
GetActionBadge(msg) ==
    IF msg.agentData.kind = "none" THEN "none"
    ELSE IF msg.agentData.action = "email_sent" THEN "Email Sent"
    ELSE IF msg.agentData.action = "email_failed" THEN "Failed"
    ELSE IF msg.agentData.action = "need_more_info" THEN "More Info Needed"
    ELSE "none"

\* ChatMessage.tsx 63-83: the email details card of a rendered Message,
\* shown for agentData?.action === 'email_sent' && agentData.parsed
EmailCard(msg) ==
    IF msg.agentData.action = "email_sent" /\ msg.agentData.parsed.present
    THEN [shown |-> TRUE, to |-> msg.agentData.parsed.to,
          subject |-> msg.agentData.parsed.subject,
          body |-> msg.agentData.parsed.body]
    ELSE [shown |-> FALSE, to |-> "", subject |-> "", body |-> ""]

\* the test of App.tsx 285 negated
WelcomeDisplayed_NonEmptyLog == showWelcome /\ Len(messages) # 0

\* App.tsx 285-297: what the render of the committed state shows in the chat
\* area: the welcome screen ...
WelcomeDisplayed == showWelcome /\ Len(messages) = 0

\* the indicator shown whenever the message list is
ThinkingDisplayed_Always == ~WelcomeDisplayed

\* App.tsx 298-320: ... or the messages, followed by the thinking indicator
\* while isProcessing
ThinkingDisplayed == ~WelcomeDisplayed /\ isProcessing

\* React re-renders App: handleSubmit is re-created (deps [isProcessing])
Render ==
    /\ rIsProcessing # isProcessing
    /\ rIsProcessing' = isProcessing
    /\ UNCHANGED << messages, isProcessing, showWelcome, inflight, nreq,
                    completed, escaped, ev >>

\* ------------------------------------------------------------ agent status
NoStatus == [kind |-> "none", status |-> "", capabilities |-> <<>>,
             email_configured |-> FALSE]

\* What api.get('/api/agent/status') can do: fulfil with an
\* AgentStatusResponse (online or not), fulfil with JSON null, reject with an
\* AxiosError, reject with something that is no AxiosError.
StatusRawResults ==
    { [kind |-> "ok", detail |-> "", message |-> "",
       data |-> [kind |-> "response", status |-> "online",
                 capabilities |-> << "send_email" >>,
                 email_configured |-> TRUE]],
      [kind |-> "ok", detail |-> "", message |-> "",
       data |-> [kind |-> "response", status |-> "starting",
                 capabilities |-> << "send_email" >>,
                 email_configured |-> FALSE]],
      [kind |-> "ok", detail |-> "", message |-> "",
       data |-> [kind |-> "null", status |-> "", capabilities |-> <<>>,
                 email_configured |-> FALSE]],
      [kind |-> "axiosError", data |-> NoStatus,
       detail |-> "", message |-> "Network Error"],
      [kind |-> "otherError", data |-> NoStatus, detail |-> "", message |-> ""] }

\* api.ts 57-71: getAgentStatus, the settled promise handed to the caller
GetAgentStatus(raw) ==
    IF raw.kind = "ok"
    THEN [thrown |-> FALSE, value |-> raw.data, error |-> ""]
    ELSE IF raw.kind = "axiosError"
    THEN [thrown |-> TRUE, value |-> NoStatus,
          error |-> Or3(raw.detail, raw.message, "Failed to get agent status")]
    ELSE [thrown |-> TRUE, value |-> NoStatus,
          error |-> "Failed to get agent status"]

\* the catch block taking the agent for online
FetchStatusCatch_Online ==
    /\ isOnline' = TRUE
    /\ UNCHANGED << capabilities, emailConfigured >>

\* App.tsx 174-176: the catch block of fetchStatus
FetchStatusCatch ==
    /\ isOnline' = FALSE
    /\ UNCHANGED << capabilities, emailConfigured >>

\* fetchStatus calling itself again after a failure
FetchStatusResume_Retry(raw) ==
    LET res == GetAgentStatus(raw) IN
    /\ statusFetch = "pending"
    /\ IF res.thrown /\ statusRequests < 2
       THEN /\ statusRequests' = statusRequests + 1
            /\ FetchStatusCatch
            /\ UNCHANGED statusFetch
       ELSE /\ statusFetch' = IF raw.kind = "ok" THEN "ok" ELSE "failed"
            /\ UNCHANGED statusRequests
            /\ IF res.thrown \/ res.value.kind = "null"
               THEN FetchStatusCatch
               ELSE /\ capabilities' = res.value.capabilities
                    /\ isOnline' = (res.value.status = "online")
                    /\ emailConfigured' = res.value.email_configured

\* App.tsx 167-179: the effect of the first render has called fetchStatus;
\* the request settles and fetchStatus resumes.  Reading a property of null
\* throws inside the try block before any setter has run.
FetchStatusResume(raw) ==
    LET res == GetAgentStatus(raw) IN
    /\ statusFetch = "pending"
    /\ statusFetch' = IF raw.kind = "ok" THEN "ok" ELSE "failed"
    /\ UNCHANGED statusRequests
    /\ IF res.thrown \/ res.value.kind = "null"
       THEN FetchStatusCatch
       ELSE /\ capabilities' = res.value.capabilities
            /\ isOnline' = (res.value.status = "online")
            /\ emailConfigured' = res.value.email_configured

\* -------------------------------------------------------------- VoiceInput
RecognizerIds == 1 .. MaxRecognizers

\* SpeechRecognitionEvent: resultIndex (from 1 here) and the result list,
\* each result with isFinal and the transcript of its first alternative
RecognitionEvents ==
    { [resultIndex |-> 1,
       results |-> << [isFinal |-> FALSE, transcript |-> << "a" >>] >>],
      [resultIndex |-> 1,
       results |-> << [isFinal |-> FALSE, transcript |-> << " " >>] >>],
      [resultIndex |-> 1,
       results |-> << [isFinal |-> TRUE, transcript |-> << "a", " " >>],
                      [isFinal |-> FALSE, transcript |-> << "b" >>] >>],
      [resultIndex |-> 2,
       results |-> << [isFinal |-> TRUE, transcript |-> << "b" >>],
                      [isFinal |-> FALSE, transcript |-> << "a" >>] >>] }

\* bookkeeping of a text input step: the handler and the text it passed to
\* onSubmit, << >> when it did not call onSubmit
TextEvent(op, called) == [op |-> op, called |-> called]

\* every recognition event of up to MaxResults results, a result being final
\* or interim with the transcript "a" or "b"
RecognitionResults == [isFinal : BOOLEAN, transcript : { << "a" >>, << "b" >> }]

AllRecognitionEvents ==
    UNION { [resultIndex : 1 .. n, results : [1 .. n -> RecognitionResults]] :
              n \in 1 .. MaxResults }

\* no result event: the last step of VoiceInput was not onresult
NoResult == [resultIndex |-> 0, results |-> <<>>, passed |-> <<>>]

\* VoiceInput.tsx 61-68: the loop from resultIndex to the end of the results,
\* concatenating the transcripts whose isFinal equals final
RECURSIVE Concatenate(_, _, _)
Concatenate(results, i, final) ==
    IF i > Len(results) THEN <<>>
    ELSE (IF results[i].isFinal = final THEN results[i].transcript ELSE <<>>)
             \o Concatenate(results, i + 1, final)

\* VoiceInput.tsx 58-70: fullText = finalTranscript || interimTranscript
FullText(event) ==
    LET finalTranscript == Concatenate(event.results, event.resultIndex, TRUE)
        interimTranscript == Concatenate(event.results, event.resultIndex, FALSE)
    IN  IF finalTranscript # <<>> THEN finalTranscript ELSE interimTranscript

\* the check of VoiceInput.tsx 39 left out
Unsupported_Unchecked == FALSE

\* VoiceInput.tsx 39: if (!SpeechRecognition)
Unsupported == ~supported

\* VoiceInput.tsx 34-88: startListening, a click on the voice button while it
\* shows the microphone (isListening rendered false, button not disabled)
StartListening ==
    /\ lastResult' = NoResult
    /\ UNCHANGED textVars
    /\ ~rIsListening
    /\ ~rIsProcessing
    /\ IF Unsupported
       THEN /\ alerted' = TRUE
            /\ UNCHANGED << recognizers, recognitionRef >>
       ELSE \E id \in RecognizerIds :
              /\ recognizers[id] = "none"
              /\ \A j \in RecognizerIds : j < id => recognizers[j] # "none"
              /\ recognizers' = [recognizers EXCEPT ![id] = "starting"]
              /\ recognitionRef' = id
              /\ UNCHANGED alerted
    /\ UNCHANGED << isListening, transcript, isListeningRef, rIsListening,
                    rTranscript, supported, delivered >>

\* VoiceInput.tsx 51-55: recognition.onstart
OnStart(id) ==
    /\ lastResult' = NoResult
    /\ UNCHANGED textVars
    /\ recognizers[id] = "starting"
    /\ recognizers' = [recognizers EXCEPT ![id] = "active"]
    /\ isListening' = TRUE
    /\ isListeningRef' = TRUE
    /\ transcript' = <<>>
    /\ UNCHANGED << recognitionRef, rIsListening, rTranscript, supported,
                    alerted, delivered >>

\* handleTranscript putting the live transcript into the log
HandleTranscript_Appends(text) ==
    /\ messages' = Append(messages, UserMessage(text, 0))
    /\ UNCHANGED << isProcessing, showWelcome, rIsProcessing, inflight, nreq,
                    completed, escaped, ev >>

\* App.tsx 239-241: handleTranscript, an empty function body
HandleTranscript(text) == UNCHANGED appVars

\* onresult adding the new text to the transcript it finds
OnResult_Appends(id, event) ==
    /\ recognizers[id] \in { "active", "stopping" }
    /\ transcript' = transcript \o FullText(event)
    /\ HandleTranscript(FullText(event))
    /\ lastResult' = [resultIndex |-> event.resultIndex,
                      results |-> event.results,
                      passed |-> FullText(event)]
    /\ UNCHANGED textVars
    /\ UNCHANGED << isListening, recognitionRef, isListeningRef, rIsListening,
                    rTranscript, supported, recognizers, alerted, delivered >>

\* VoiceInput.tsx 57-73: recognition.onresult; a recognizer that was told to
\* stop can still deliver its last result.  onTranscript is
\* App.handleTranscript.
OnResult(id, event) ==
    /\ recognizers[id] \in { "active", "stopping" }
    /\ transcript' = FullText(event)
    /\ HandleTranscript(FullText(event))
    /\ lastResult' = [resultIndex |-> event.resultIndex,
                      results |-> event.results,
                      passed |-> FullText(event)]
    /\ UNCHANGED textVars
    /\ UNCHANGED << isListening, recognitionRef, isListeningRef, rIsListening,
                    rTranscript, supported, recognizers, alerted, delivered >>

\* VoiceInput.tsx 75-79: recognition.onerror; the end event follows
OnError(id) ==
    /\ lastResult' = NoResult
    /\ UNCHANGED textVars
    /\ recognizers[id] \in { "starting", "active", "stopping" }
    /\ recognizers' = [recognizers EXCEPT ![id] = "errored"]
    /\ isListening' = FALSE
    /\ isListeningRef' = FALSE
    /\ UNCHANGED << transcript, recognitionRef, rIsListening, rTranscript,
                    supported, alerted, delivered >>

\* VoiceInput.tsx 81-84: recognition.onend, after stop(), after an error or
\* when the recognizer ends by itself
OnEnd(id) ==
    /\ lastResult' = NoResult
    /\ UNCHANGED textVars
    /\ recognizers[id] \in { "active", "stopping", "errored" }
    /\ recognizers' = [recognizers EXCEPT ![id] = "ended"]
    /\ isListening' = FALSE
    /\ isListeningRef' = FALSE
    /\ UNCHANGED << transcript, recognitionRef, rIsListening, rTranscript,
                    supported, alerted, delivered >>

\* SpeechRecognition.stop(): a recognizer that is starting or active winds
\* down; on any other it has no effect
StopRecognizer(id) ==
    IF recognizers[id] \in { "starting", "active" }
    THEN [recognizers EXCEPT ![id] = "stopping"]
    ELSE recognizers

\* VoiceInput.tsx 97: if (transcript.trim()), on the transcript of the render
\* that created the callback
HasUtterance == Trim(rTranscript) # <<>>

\* VoiceInput.tsx 90-102: stopListening, a click on the voice button while it
\* shows the wave (isListening rendered true, button not disabled); onSubmit
\* is App.handleSubmit
StopListening ==
    /\ lastResult' = NoResult
    /\ UNCHANGED textVars
    /\ rIsListening
    /\ ~rIsProcessing
    /\ IF recognitionRef # 0
       THEN /\ recognizers' = StopRecognizer(recognitionRef)
            /\ isListening' = FALSE
            /\ isListeningRef' = FALSE
            /\ IF HasUtterance
               THEN /\ HandleSubmit(Trim(rTranscript))
                    /\ transcript' = <<>>
                    /\ delivered' =
                          [delivered EXCEPT ![recognitionRef] =
                              IF @ < 2 THEN @ + 1 ELSE @]
               ELSE UNCHANGED << transcript, delivered, messages,
                                    isProcessing, showWelcome, rIsProcessing,
                                    inflight, nreq, completed, escaped, ev >>
       ELSE UNCHANGED << recognizers, isListening, isListeningRef,
                            transcript, delivered, messages, isProcessing,
                            showWelcome, rIsProcessing, inflight, nreq,
                            completed, escaped, ev >>
    /\ UNCHANGED << recognitionRef, rIsListening, rTranscript, supported,
                    alerted >>

\* VoiceInput.tsx 129: onChange of the text input, which is disabled while
\* the rendered isProcessing or isListening is set (VoiceInput.tsx 136)
SetTextInput(value) ==
    /\ ~rIsProcessing
    /\ ~rIsListening
    /\ textInput' = value
    /\ textEv' = TextEvent("change", <<>>)
    /\ UNCHANGED << isListening, transcript, recognitionRef, isListeningRef,
                    rIsListening, rTranscript, supported, recognizers,
                    alerted, delivered, lastResult, rTextInput >>
    /\ UNCHANGED appVars

\* handleTextSubmit clearing the input whether or not it submits
HandleTextSubmit_AlwaysClears ==
    /\ ~rIsProcessing
    /\ ~rIsListening \/ Trim(rTextInput) # <<>>
    /\ IF Trim(rTextInput) # <<>> /\ ~rIsProcessing
       THEN /\ HandleSubmit(Trim(rTextInput))
            /\ textInput' = <<>>
            /\ textEv' = TextEvent("handleTextSubmit", << Trim(rTextInput) >>)
       ELSE /\ UNCHANGED appVars
            /\ textInput' = <<>>
            /\ textEv' = TextEvent("handleTextSubmit", <<>>)
    /\ UNCHANGED << isListening, transcript, recognitionRef, isListeningRef,
                    rIsListening, rTranscript, supported, recognizers,
                    alerted, delivered, lastResult, rTextInput >>

\* VoiceInput.tsx 104-117: handleTextSubmit, called by the form's submit
\* event and by Enter in the input (handleKeyDown).  Enter needs the input
\* enabled (VoiceInput.tsx 136), the send button needs non-blank text and
\* isProcessing unset (VoiceInput.tsx 182); both as rendered.  onSubmit is
\* App.handleSubmit of the same render.
HandleTextSubmit ==
    /\ ~rIsProcessing
    /\ ~rIsListening \/ Trim(rTextInput) # <<>>
    /\ IF Trim(rTextInput) # <<>> /\ ~rIsProcessing
       THEN /\ HandleSubmit(Trim(rTextInput))
            /\ textInput' = <<>>
            /\ textEv' = TextEvent("handleTextSubmit", << Trim(rTextInput) >>)
       ELSE /\ UNCHANGED appVars
            /\ UNCHANGED textInput
            /\ textEv' = TextEvent("handleTextSubmit", <<>>)
    /\ UNCHANGED << isListening, transcript, recognitionRef, isListeningRef,
                    rIsListening, rTranscript, supported, recognizers,
                    alerted, delivered, lastResult, rTextInput >>

\* React commits the pending state updates: App and VoiceInput re-render,
\* handleSubmit (deps [isProcessing]), the button and stopListening (deps
\* [transcript, onSubmit]) are re-created
VoiceRender ==
    /\ lastResult' = NoResult
    /\ \/ rIsProcessing # isProcessing
       \/ rIsListening # isListening
       \/ rTranscript # transcript
       \/ rTextInput # textInput
    /\ rIsProcessing' = isProcessing
    /\ rIsListening' = isListening
    /\ rTranscript' = transcript
    /\ rTextInput' = textInput
    /\ UNCHANGED << textInput, textEv >>
    /\ UNCHANGED << isListening, transcript, recognitionRef, isListeningRef,
                    supported, recognizers, alerted, delivered,
                    messages, isProcessing, showWelcome, inflight, nreq,
                    completed, escaped, ev >>

\* --------------------------------------------------------------- audio app
\* FileUpload.tsx 28: const maxSize = 25 * 1024 * 1024
maxSize == 25 * 1024 * 1024

\* A MIME type is a sequence of tokens, the first one the "major/" part.
FileTypes == { << "audio/", "mpeg" >>, << "text/", "plain" >> }

Files == [type : FileTypes, size : { 1, maxSize, maxSize + 1 }]

\* no file was selected yet
NoFile == [type |-> <<>>, size |-> 0]

\* String.prototype.startsWith, on the first token
StartsWith(t, prefix) == Len(t) > 0 /\ t[1] = prefix

\* sizes of the Blob a dataavailable event can carry
ChunkSizes == { 0, 1, maxSize + 1 }

StreamIds == 1 .. MaxStreams

NoAudioData == [kind |-> "none", transcription |-> <<>>, response |-> <<>>]

\* api.post('/api/process-audio') for request rid
AudioRawResults(rid) ==
    { [kind |-> "ok", detail |-> "", message |-> "",
       data |-> [kind |-> "response", transcription |-> << "T", rid >>,
                 response |-> << "R", rid >>]],
      [kind |-> "ok", detail |-> "", message |-> "",
       data |-> [kind |-> "null", transcription |-> <<>>, response |-> <<>>]],
      [kind |-> "axiosError", data |-> NoAudioData,
       detail |-> "", message |-> "Network Error"],
      [kind |-> "otherError", data |-> NoAudioData, detail |-> "", message |-> ""] }

\* processAudio: the settled promise handed to the caller
ProcessAudio(raw) ==
    IF raw.kind = "ok"
    THEN [thrown |-> FALSE, value |-> raw.data, error |-> ""]
    ELSE IF raw.kind = "axiosError"
    THEN [thrown |-> TRUE, value |-> NoAudioData,
          error |-> Or3(raw.detail, raw.message, "Failed to process audio")]
    ELSE [thrown |-> TRUE, value |-> NoAudioData,
          error |-> "Failed to process audio"]

\* size of new Blob(chunks)
RECURSIVE BlobSize(_)
BlobSize(chunks) ==
    IF chunks = <<>> THEN 0 ELSE Head(chunks).size + BlobSize(Tail(chunks))

\* App.tsx 13-17: handleProcessingStart
HandleProcessingStart ==
    /\ aIsProcessing' = TRUE
    /\ error' = ""
    /\ response' = <<>>
    /\ UNCHANGED transcription

\* handleProcessingComplete storing the response and leaving the
\* transcription of the earlier round trip
HandleProcessingComplete_ResponseOnly(transcriptionText, aiResponse) ==
    /\ response' = aiResponse
    /\ aIsProcessing' = FALSE
    /\ UNCHANGED << transcription, error >>

\* App.tsx 19-23: handleProcessingComplete
HandleProcessingComplete(transcriptionText, aiResponse) ==
    /\ transcription' = transcriptionText
    /\ response' = aiResponse
    /\ aIsProcessing' = FALSE
    /\ UNCHANGED error

\* App.tsx 25-28: handleError
HandleError(errorMessage) ==
    /\ error' = errorMessage
    /\ aIsProcessing' = FALSE
    /\ UNCHANGED << transcription, response >>

\* App.tsx 30-34: handleClear, the Clear button of TranscriptionDisplay
HandleClear ==
    /\ mounted
    /\ transcription # <<>>
    /\ transcription' = <<>>
    /\ response' = <<>>
    /\ error' = ""
    /\ UNCHANGED << mounted, lastFile >>
    /\ UNCHANGED << aIsProcessing, aRIsProcessing, isRecording, rIsRecording,
                    recordingTime, mediaRecorderRef, audioChunksRef, timerRef,
                    streamRef, streams, recorders, timers, aInflight, aNreq >>

\* the request both handleFile and handleAudioProcessing start after
\* onProcessingStart(): formData, then processAudio(formData)
StartProcessAudio(src, size) ==
    /\ HandleProcessingStart
    /\ aInflight' = aInflight \cup { [rid |-> aNreq + 1, src |-> src, size |-> size] }
    /\ aNreq' = aNreq + 1

\* the size check with >= in place of >
TooLarge_Inclusive(file) == file.size >= maxSize

\* FileUpload.tsx 22: the type check; 29: the size check
BadType(file) == ~StartsWith(file.type, "audio/")
TooLarge(file) == file.size > maxSize

\* FileUpload.tsx 20-40: handleFile up to the await.  The drop zone takes no
\* pointer events and the input is disabled while the isProcessing prop is set.
HandleFile(file) ==
    /\ mounted
    /\ ~aRIsProcessing
    /\ aNreq < MaxAudioRequests
    /\ IF BadType(file)
       THEN /\ HandleError("Please select an audio file (MP3, WAV, M4A, etc.)")
            /\ UNCHANGED << aInflight, aNreq >>
       ELSE IF TooLarge(file)
       THEN /\ HandleError("File size must be less than 25MB")
            /\ UNCHANGED << aInflight, aNreq >>
       ELSE StartProcessAudio("file", file.size)
    /\ lastFile' = file
    /\ UNCHANGED mounted
    /\ UNCHANGED << aRIsProcessing, isRecording, rIsRecording, recordingTime,
                    mediaRecorderRef, audioChunksRef, timerRef, streamRef,
                    streams, recorders, timers >>

\* FileUpload.tsx 40-50 and part_001 102-112: the request settles and the
\* handler resumes (both continuations are the same code)
AudioResume(req, raw) ==
    LET res == ProcessAudio(raw) IN
    /\ req \in aInflight
    /\ aInflight' = aInflight \ { req }
    /\ IF res.thrown
       THEN HandleError(res.error)
       ELSE IF res.value.kind = "null"
       THEN HandleError("Cannot read properties of null (reading 'transcription')")
       ELSE HandleProcessingComplete(res.value.transcription, res.value.response)
    /\ UNCHANGED << mounted, lastFile >>
    /\ UNCHANGED << aRIsProcessing, isRecording, rIsRecording, recordingTime,
                    mediaRecorderRef, audioChunksRef, timerRef, streamRef,
                    streams, recorders, timers, aNreq >>

\* part_001 36-38: a click on "Start Recording" (the button is disabled while
\* the isProcessing prop is set and shows Start while isRecording is false):
\* startRecording up to the await of getUserMedia
StartRecording ==
    /\ mounted
    /\ ~aRIsProcessing
    /\ ~rIsRecording
    /\ \E i \in StreamIds :
          /\ streams[i] = "unused"
          /\ \A j \in StreamIds : j < i => streams[j] # "unused"
          /\ streams' = [streams EXCEPT ![i] = "pending"]
    /\ UNCHANGED << mounted, lastFile >>
    /\ UNCHANGED << transcription, response, aIsProcessing, error,
                    aRIsProcessing, isRecording, rIsRecording, recordingTime,
                    mediaRecorderRef, audioChunksRef, timerRef, streamRef,
                    recorders, timers, aInflight, aNreq >>

GetUserMediaOutcomes == { "granted", "denied", "recorderThrows" }

\* the catch block swallowing the rejection without a report
StartRecordingCatch_Silent ==
    UNCHANGED << transcription, response, aIsProcessing, error >>

\* part_001 77-80: the catch block of startRecording
StartRecordingCatch ==
    HandleError("Failed to access microphone. Please check permissions.")

\* part_001 38-80: getUserMedia settles and startRecording resumes
StartRecordingResume(i, outcome) ==
    /\ streams[i] = "pending"
    /\ IF outcome = "denied"
       THEN /\ streams' = [streams EXCEPT ![i] = "denied"]
            /\ StartRecordingCatch
            /\ UNCHANGED << isRecording, recordingTime, mediaRecorderRef,
                            audioChunksRef, timerRef, streamRef, recorders,
                            timers >>
       ELSE IF outcome = "recorderThrows"
       THEN \* new MediaRecorder(...) throws NotSupportedError for the mimeType
            /\ streams' = [streams EXCEPT ![i] = "live"]
            /\ streamRef' = i
            /\ StartRecordingCatch
            /\ UNCHANGED << isRecording, recordingTime, mediaRecorderRef,
                            audioChunksRef, timerRef, recorders, timers >>
       ELSE /\ streams' = [streams EXCEPT ![i] = "live"]
            /\ streamRef' = i
            /\ mediaRecorderRef' = i
            /\ audioChunksRef' = <<>>
            /\ recorders' = [recorders EXCEPT ![i] = "recording"]
            /\ isRecording' = TRUE
            /\ recordingTime' = 0
            /\ timerRef' = i
            /\ timers' = timers \cup { i }
            /\ UNCHANGED << transcription, response, aIsProcessing, error >>
    /\ UNCHANGED << mounted, lastFile >>
    /\ UNCHANGED << aRIsProcessing, rIsRecording, aInflight, aNreq >>

\* part_001 74-76: the interval fires
TimerTick ==
    /\ timers # {}
    /\ recordingTime < MaxRecordingTime
    /\ recordingTime' = recordingTime + 1
    /\ UNCHANGED << mounted, lastFile >>
    /\ UNCHANGED << transcription, response, aIsProcessing, error,
                    aRIsProcessing, isRecording, rIsRecording,
                    mediaRecorderRef, audioChunksRef, timerRef, streamRef,
                    streams, recorders, timers, aInflight, aNreq >>

\* part_001 83-93: a click on "Stop Recording" (the button is disabled while
\* the isProcessing prop is set and shows Stop while isRecording is true).
\* MediaRecorder.stop() on an inactive recorder returns without effect.
StopRecording ==
    /\ mounted
    /\ ~aRIsProcessing
    /\ rIsRecording
    /\ IF mediaRecorderRef # 0 /\ rIsRecording
       THEN /\ recorders' =
                  IF recorders[mediaRecorderRef] = "recording"
                  THEN [recorders EXCEPT ![mediaRecorderRef] = "stopping"]
                  ELSE recorders
            /\ isRecording' = FALSE
            /\ IF timerRef # 0
               THEN /\ timers' = timers \ { timerRef }
                    /\ timerRef' = 0
               ELSE UNCHANGED << timers, timerRef >>
       ELSE UNCHANGED << recorders, isRecording, timers, timerRef >>
    /\ UNCHANGED << mounted, lastFile >>
    /\ UNCHANGED << transcription, response, aIsProcessing, error,
                    aRIsProcessing, rIsRecording, recordingTime,
                    mediaRecorderRef, audioChunksRef, streamRef, streams,
                    aInflight, aNreq >>

\* part_001 48-52: the dataavailable event MediaRecorder.stop() queues
OnDataAvailable(i, size) ==
    /\ recorders[i] = "stopping"
    /\ recorders' = [recorders EXCEPT ![i] = "stopped"]
    /\ audioChunksRef' =
          IF size > 0
          THEN Append(audioChunksRef, [rec |-> i, size |-> size])
          ELSE audioChunksRef
    /\ UNCHANGED << mounted, lastFile >>
    /\ UNCHANGED << transcription, response, aIsProcessing, error,
                    aRIsProcessing, isRecording, rIsRecording, recordingTime,
                    mediaRecorderRef, timerRef, streamRef, streams, timers,
                    aInflight, aNreq >>

\* part_001 54-67 and 95-102: the stop event that follows; onstop builds the
\* Blob, stops the tracks of streamRef and runs handleAudioProcessing up to
\* the await
OnStop(i) ==
    /\ recorders[i] = "stopped"
    /\ aNreq < MaxAudioRequests
    /\ recorders' = [recorders EXCEPT ![i] = "inactive"]
    /\ IF streamRef # 0
       THEN /\ streams' = [streams EXCEPT ![streamRef] = "ended"]
            /\ streamRef' = 0
       ELSE UNCHANGED << streams, streamRef >>
    /\ StartProcessAudio("recording", BlobSize(audioChunksRef))
    /\ UNCHANGED << mounted, lastFile >>
    /\ UNCHANGED << aRIsProcessing, isRecording, rIsRecording, recordingTime,
                    mediaRecorderRef, audioChunksRef, timerRef, timers >>

\* part_001 24-34: the audio App is unmounted and the cleanup of
\* AudioRecorder runs.  Pending promises and the events of a recorder still
\* arrive afterwards; calls of state setters then have no visible effect.
Unmount ==
    /\ mounted
    /\ mounted' = FALSE
    /\ IF streamRef # 0
       THEN streams' = [streams EXCEPT ![streamRef] = "ended"]
       ELSE UNCHANGED streams
    /\ IF timerRef # 0
       THEN timers' = timers \ { timerRef }
       ELSE UNCHANGED timers
    /\ UNCHANGED << transcription, response, aIsProcessing, error,
                    aRIsProcessing, isRecording, rIsRecording, recordingTime,
                    mediaRecorderRef, audioChunksRef, timerRef, streamRef,
                    recorders, aInflight, aNreq, lastFile >>

\* React re-renders the audio App and its children
AudioRender ==
    /\ mounted
    /\ aRIsProcessing # aIsProcessing \/ rIsRecording # isRecording
    /\ aRIsProcessing' = aIsProcessing
    /\ rIsRecording' = isRecording
    /\ UNCHANGED << mounted, lastFile >>
    /\ UNCHANGED << transcription, response, aIsProcessing, error,
                    isRecording, recordingTime, mediaRecorderRef,
                    audioChunksRef, timerRef, streamRef, streams, recorders,
                    timers, aInflight, aNreq >>

\* ----------------------------------------------------------- specifications
Setup(hasRecognition) ==
    /\ messages = <<>>
    /\ isProcessing = FALSE
    /\ showWelcome = TRUE
    /\ rIsProcessing = FALSE
    /\ inflight = {}
    /\ nreq = 0
    /\ completed = 0
    /\ escaped = FALSE
    /\ ev = Event("none", <<>>, 0, NoRaw)
    /\ now = ClockStart
    /\ capabilities = <<>>
    /\ isOnline = FALSE
    /\ emailConfigured = FALSE
    /\ statusFetch = "pending"
    /\ statusRequests = 1
    /\ isListening = FALSE
    /\ transcript = <<>>
    /\ recognitionRef = 0
    /\ isListeningRef = FALSE
    /\ rIsListening = FALSE
    /\ rTranscript = <<>>
    /\ supported = hasRecognition
    /\ recognizers = [i \in RecognizerIds |-> "none"]
    /\ alerted = FALSE
    /\ delivered = [i \in RecognizerIds |-> 0]
    /\ lastResult = NoResult
    /\ textInput = <<>>
    /\ rTextInput = <<>>
    /\ textEv = TextEvent("none", <<>>)
    /\ mounted = TRUE
    /\ transcription = <<>>
    /\ response = <<>>
    /\ aIsProcessing = FALSE
    /\ error = ""
    /\ aRIsProcessing = FALSE
    /\ isRecording = FALSE
    /\ rIsRecording = FALSE
    /\ recordingTime = 0
    /\ mediaRecorderRef = 0
    /\ audioChunksRef = <<>>
    /\ timerRef = 0
    /\ streamRef = 0
    /\ streams = [i \in StreamIds |-> "unused"]
    /\ recorders = [i \in StreamIds |-> "none"]
    /\ timers = {}
    /\ aInflight = {}
    /\ aNreq = 0
    /\ lastFile = NoFile

\* the state after the first render, in a browser with speech recognition
Init == Setup(TRUE)

\* chat app
Submit ==
    /\ \E text \in Texts : HandleSubmit(text)
    /\ UNCHANGED << now, voiceVars, statusVars, audioVars >>

Resume ==
    /\ \E req \in inflight : \E raw \in RawResults : HandleSubmitResume(req, raw)
    /\ UNCHANGED << now, voiceVars, statusVars, audioVars >>

ChatRender ==
    /\ Render
    /\ UNCHANGED << now, voiceVars, statusVars, audioVars >>

Next ==
    \/ Submit
    \/ Resume
    \/ ChatRender

Spec == Init /\ [][Next]_vars

\* every started request settles; every pending re-render happens
LiveSpec == Spec /\ WF_vars(Resume) /\ WF_vars(ChatRender)

\* api.ts 5-10, 39-43: the axios instance is created without a timeout and
\* the post is awaited without one, so a request may stay pending for ever:
\* only the pending re-render is certain to happen
NoTimeoutSpec == Spec /\ WF_vars(ChatRender)

\* chat app with the wall clock advancing
ClockTick ==
    /\ now < ClockStart + MaxClock
    /\ now' = now + 1
    /\ UNCHANGED << messages, isProcessing, showWelcome, rIsProcessing,
                    inflight, nreq, completed, escaped, ev, voiceVars,
                    statusVars, audioVars >>

TimeNext ==
    \/ Submit
    \/ Resume
    \/ ChatRender
    \/ ClockTick

TimeSpec == Init /\ [][TimeNext]_vars

\* chat app with the status fetch of the first render
StatusSettles ==
    /\ \E raw \in StatusRawResults : FetchStatusResume(raw)
    /\ UNCHANGED << chatVars, voiceVars, audioVars >>

StatusNext ==
    \/ Submit
    \/ Resume
    \/ ChatRender
    \/ StatusSettles

StatusSpec == Init /\ [][StatusNext]_vars

\* chat app driven by voice, in a browser with or without speech recognition
VoiceInit == \E hasRecognition \in BOOLEAN : Setup(hasRecognition)

\* the backend outcome of the voice runs: the agent answers
VoiceRawResults ==
    { raw \in RawResults :
        raw.kind = "ok" /\ raw.data.action = "chat_response" }

VoiceStart ==
    /\ StartListening
    /\ UNCHANGED << appVars, now, statusVars, audioVars >>

RecognizerStarts ==
    /\ \E id \in RecognizerIds : OnStart(id)
    /\ UNCHANGED << appVars, now, statusVars, audioVars >>

RecognizerResult ==
    /\ \E id \in RecognizerIds : \E event \in RecognitionEvents :
          OnResult(id, event)
    /\ UNCHANGED << now, statusVars, audioVars >>

RecognizerError ==
    /\ \E id \in RecognizerIds : OnError(id)
    /\ UNCHANGED << appVars, now, statusVars, audioVars >>

RecognizerEnd ==
    /\ \E id \in RecognizerIds : OnEnd(id)
    /\ UNCHANGED << appVars, now, statusVars, audioVars >>

VoiceStop ==
    /\ StopListening
    /\ UNCHANGED << now, statusVars, audioVars >>

VoiceSettles ==
    /\ \E req \in inflight : \E raw \in VoiceRawResults :
          HandleSubmitResume(req, raw)
    /\ UNCHANGED << now, voiceVars, statusVars, audioVars >>

VoiceRerender ==
    /\ VoiceRender
    /\ UNCHANGED << now, statusVars, audioVars >>

VoiceNext ==
    \/ VoiceStart
    \/ RecognizerStarts
    \/ RecognizerResult
    \/ RecognizerError
    \/ RecognizerEnd
    \/ VoiceStop
    \/ VoiceSettles
    \/ VoiceRerender

VoiceSpec == VoiceInit /\ [][VoiceNext]_vars

\* chat app with a backend answering with every body the renderer
\* distinguishes, or failing
DisplayRawResults ==
    { raw \in RawResults :
        raw.kind = "ok" \/ (raw.kind = "axiosError" /\ raw.detail # "") }
    \cup
    { [kind |-> "ok", data |-> d, detail |-> "", message |-> ""] :
          d \in DisplayBodies }

DisplaySettles ==
    /\ \E req \in inflight : \E raw \in DisplayRawResults :
          HandleSubmitResume(req, raw)
    /\ UNCHANGED << now, voiceVars, statusVars, audioVars >>

DisplayNext ==
    \/ Submit
    \/ DisplaySettles
    \/ ChatRender

DisplaySpec == Init /\ [][DisplayNext]_vars

\* chat app, commands typed into the text input of VoiceInput
TextChanged ==
    /\ \E value \in Texts : SetTextInput(value)
    /\ UNCHANGED << now, statusVars, audioVars >>

TextSubmitted ==
    /\ HandleTextSubmit
    /\ UNCHANGED << now, statusVars, audioVars >>

TextNext ==
    \/ TextChanged
    \/ TextSubmitted
    \/ VoiceSettles
    \/ VoiceRerender

TextSpec == Init /\ [][TextNext]_vars

\* VoiceInput while the recognizer it holds hears any recognition event;
\* nothing is stopped or submitted and no recognizer ends
RecognizerHears ==
    /\ recognitionRef # 0
    /\ \E event \in AllRecognitionEvents : OnResult(recognitionRef, event)
    /\ UNCHANGED << now, statusVars, audioVars >>

ResultNext ==
    \/ VoiceStart
    \/ RecognizerStarts
    \/ RecognizerHears
    \/ VoiceRerender

ResultSpec == Init /\ [][ResultNext]_vars

\* audio app
FileSelected ==
    /\ \E file \in Files : HandleFile(file)
    /\ UNCHANGED << chatVars, statusVars, voiceVars >>

AudioSettles ==
    /\ \E req \in aInflight : \E raw \in AudioRawResults(req.rid) : AudioResume(req, raw)
    /\ UNCHANGED << chatVars, statusVars, voiceVars >>

StartClicked ==
    /\ StartRecording
    /\ UNCHANGED << chatVars, statusVars, voiceVars >>

MicrophoneSettles ==
    /\ \E i \in StreamIds : \E outcome \in GetUserMediaOutcomes :
          StartRecordingResume(i, outcome)
    /\ UNCHANGED << chatVars, statusVars, voiceVars >>

Tick ==
    /\ TimerTick
    /\ UNCHANGED << chatVars, statusVars, voiceVars >>

StopClicked ==
    /\ StopRecording
    /\ UNCHANGED << chatVars, statusVars, voiceVars >>

RecorderData ==
    /\ \E i \in StreamIds : \E size \in ChunkSizes : OnDataAvailable(i, size)
    /\ UNCHANGED << chatVars, statusVars, voiceVars >>

RecorderStop ==
    /\ \E i \in StreamIds : OnStop(i)
    /\ UNCHANGED << chatVars, statusVars, voiceVars >>

ClearClicked ==
    /\ HandleClear
    /\ UNCHANGED << chatVars, statusVars, voiceVars >>

AudioRerender ==
    /\ AudioRender
    /\ UNCHANGED << chatVars, statusVars, voiceVars >>

Unmounted ==
    /\ Unmount
    /\ UNCHANGED << chatVars, statusVars, voiceVars >>

AudioNext ==
    \/ FileSelected
    \/ AudioSettles
    \/ StartClicked
    \/ MicrophoneSettles
    \/ Tick
    \/ StopClicked
    \/ RecorderData
    \/ RecorderStop
    \/ ClearClicked
    \/ AudioRerender
    \/ Unmounted

AudioSpec == Init /\ [][AudioNext]_vars

\* audio app, the file upload alone: nothing is recorded, the component
\* stays mounted
FileNext ==
    \/ FileSelected
    \/ AudioSettles
    \/ ClearClicked
    \/ AudioRerender

FileSpec == Init /\ [][FileNext]_vars

\* audio app, the recorder alone: no file is uploaded, the transcription is
\* not cleared, the component stays mounted
RecordNext ==
    \/ StartClicked
    \/ MicrophoneSettles
    \/ Tick
    \/ StopClicked
    \/ RecorderData
    \/ RecorderStop
    \/ AudioSettles
    \/ AudioRerender

RecordSpec == Init /\ [][RecordNext]_vars

\* ------------------------------------------------------------------ claims
Last(log) == log[Len(log)]

IsPrefix(old, new) ==
    /\ Len(old) <= Len(new)
    /\ SubSeq(new, 1, Len(old)) = old

Count(log, type) == Cardinality({ i \in 1 .. Len(log) : log[i].type = type })

\* the step just taken ran handleSubmit / ran the continuation of handleSubmit
SubmitStep == ev'.op = "handleSubmit" /\ (ev' # ev \/ messages' # messages)
ResumeStep == completed' = completed + 1

\* C1: a submit attempt made while a submission is in flight appends no
\* message, starts no request and leaves isProcessing unchanged, in every
\* interleaving of submit attempts.
C1_SubmitWhileBusyIsNoOp ==
    [][ (inflight # {} /\ SubmitStep)
            => UNCHANGED << messages, inflight, nreq, isProcessing >> ]_vars

\* C2: the log holds exactly two entries per completed round trip, plus the
\* user message of the round trip in flight; repeated submit attempts while
\* Busy add nothing.
C2_LogGrowsByTwoPerRoundTrip ==
    Len(messages) = 2 * completed + (IF inflight # {} THEN 1 ELSE 0)

\* C3: isProcessing is true exactly when one executeAgent request is in
\* flight, and never more than one request is in flight.
C3_ProcessingIffOneInFlight ==
    /\ Cardinality(inflight) <= 1
    /\ isProcessing <=> Cardinality(inflight) = 1

\* C4: in the audio app at most one processAudio request is outstanding, and
\* isProcessing stays true until that request resolves.
C4_AtMostOneProcessAudio ==
    /\ Cardinality(aInflight) <= 1
    /\ aInflight # {} => aIsProcessing

\* C5: log entries alternate user, agent, user, agent, ..., and each agent
\* message is the reply to the user message immediately before it.
C5_LogAlternates ==
    \A i \in 1 .. Len(messages) :
        IF i % 2 = 1
        THEN messages[i].type = "user"
        ELSE /\ messages[i].type = "agent"
             /\ messages[i].rid = messages[i - 1].rid

\* C6: when the request of an accepted submission settles, with a response or
\* with a failure, exactly one agent message is appended and isProcessing
\* becomes false; if every started request settles, every Busy state is
\* followed by a Ready state.
C6_ResolveAppendsOneAndReturnsToReady ==
    /\ [][ ResumeStep =>
             /\ Len(messages') = Len(messages) + 1
             /\ IsPrefix(messages, messages')
             /\ Last(messages').type = "agent"
             /\ ~isProcessing' ]_vars
    /\ (isProcessing ~> ~isProcessing)

C6_Witness ==
    /\ ev.op = "resume"
    /\ ev.raw.kind = "otherError"
    /\ ~isProcessing
    /\ inflight = {}
    /\ Len(messages) = 2
    /\ Last(messages).type = "agent"

\* C7: after a round trip that failed with a network or server error, the
\* log ends with an agent message of the failure variant (no agentData)
\* whose text carries the error message; no exception ever escapes
\* handleSubmit.
C7_FailedRoundTripYieldsErrorMessage ==
    /\ ~escaped
    /\ (ev.op = "resume" /\ ev.raw.kind \in { "axiosError", "otherError" }) =>
          /\ messages # <<>>
          /\ Last(messages).type = "agent"
          /\ Last(messages).rid = ev.rid
          /\ Last(messages).agentData = NoData
          /\ Len(Last(messages).text) = 2
          /\ Last(messages).text[2] # ""
          /\ ev.raw.detail # "" => Last(messages).text[2] = ev.raw.detail
          /\ (ev.raw.detail = "" /\ ev.raw.message # "")
                => Last(messages).text[2] = ev.raw.message

C7_Witness ==
    /\ ev.op = "resume"
    /\ ev.raw.kind = "axiosError"
    /\ ev.raw.message = "Network Error"
    /\ messages # <<>>
    /\ Last(messages).text = << "Error: ", "Network Error" >>
    /\ ~escaped

\* C8: executeAgent never throws to its caller: a failure is returned as the
\* failure outcome, and only a well-formed response is returned as a
\* successful outcome.
C8_PipelineNeverThrows ==
    ev.op = "resume" =>
        LET res == ExecuteAgent(ev.raw) IN
        /\ ~res.thrown
        /\ res.value.kind = "response" <=> ev.raw.data \in AgentResponses
        /\ res.value.kind \in { "response", "none" }

\* C9: each accepted submission issues exactly one request and a failed
\* request is not retried: the requests issued equal the user messages
\* appended, and each request is in flight or has settled exactly once.
C9_NoRetry ==
    /\ nreq = Count(messages, "user")
    /\ nreq = completed + Cardinality(inflight)
    /\ \A r \in inflight :
          \E i \in 1 .. Len(messages) :
              messages[i].type = "user" /\ messages[i].rid = r.rid

C9_Witness ==
    /\ Len(messages) >= 3
    /\ messages[2].type = "agent"
    /\ messages[2].agentData = NoData
    /\ messages[3].type = "user"
    /\ nreq = 2

\* C10: the log is append-only: across every transition the previous log is
\* a prefix of the new log.
C10_AppendOnly == [][ IsPrefix(messages, messages') ]_vars

C10_Witness ==
    /\ Len(messages) = 4
    /\ ev.op = "resume"

\* the order of two formatted times as the strings "hh:mm AM|PM" compare
TimestampLess(a, b) ==
    \/ a.hh < b.hh
    \/ a.hh = b.hh /\ a.mm < b.mm
    \/ a.hh = b.hh /\ a.mm = b.mm /\ a.ampm = "AM" /\ b.ampm = "PM"

\* C11: the log is strictly timestamp-increasing: for positions i < j the
\* timestamp of entry i is strictly less than the timestamp of entry j.
C11_TimestampsStrictlyIncrease ==
    \A i, j \in 1 .. Len(messages) :
        i < j => TimestampLess(messages[i].timestamp, messages[j].timestamp)


\* the recognizers that were started and have not ended
LiveRecognizers ==
    { i \in RecognizerIds : recognizers[i] \in { "starting", "active", "stopping" } }

\* C12: at most one speech recognizer is live at any time: a startListening
\* while an earlier recognizer has not ended creates no second one
C12_AtMostOneRecognizer == Cardinality(LiveRecognizers) <= 1


\* a step in which stopListening stops recognizer id
StopsRecognizer(id) ==
    /\ recognizers[id] \in { "starting", "active" }
    /\ recognizers'[id] = "stopping"

\* C13: stopListening in state Listening after a non-empty partial transcript
\* hands exactly one utterance to onSubmit, the trimmed last partial
\* transcript: never none, never a second one
C13_StopYieldsOneUtterance ==
    [][ \A id \in RecognizerIds :
          (StopsRecognizer(id) /\ isListening /\ Trim(transcript) # <<>>)
              => /\ delivered[id] = 0
                 /\ delivered'[id] = 1
                 /\ nreq' = nreq + 1
                 /\ ev'.op = "handleSubmit"
                 /\ ev'.text = Trim(transcript) ]_vars


C18_UnsupportedOnlyAlerts ==
    [][ ~supported
            => /\ recognizers' = recognizers
               /\ recognitionRef' = recognitionRef
               /\ ~isListening /\ ~isListening'
               /\ transcript' = transcript
               /\ messages' = messages
               /\ isProcessing' = isProcessing
               /\ inflight' = inflight ]_vars

\* startListening has run on a platform without speech recognition
C18_Witness ==
    /\ ~supported
    /\ alerted
    /\ \A i \in RecognizerIds : recognizers[i] = "none"


\* a recording is active or a microphone acquisition is pending
CaptureBusy ==
    \/ isRecording
    \/ \E i \in StreamIds : streams[i] = "pending"

\* C15: a startRecording while a recording is active or an earlier microphone
\* acquisition is pending leaves the capture as it is: no further getUserMedia
\* call is made, and stream, recorder, chunk buffer and timer are not replaced
C15_StartWhileBusyRejected ==
    [][ CaptureBusy
            => \A i \in StreamIds : streams'[i] = "pending" => streams[i] = "pending"
       ]_vars


\* C16: after the unmount no microphone stream acquired by the component is
\* live, also when the unmount came while getUserMedia was pending
C16_NoLiveStreamAfterUnmount ==
    ~mounted => \A i \in StreamIds : streams[i] # "live"


\* the bytes recorder i delivered that are in the chunk buffer
RECURSIVE BytesOf(_, _)
BytesOf(chunks, i) ==
    IF chunks = <<>> THEN 0
    ELSE (IF Head(chunks).rec = i THEN Head(chunks).size ELSE 0)
             + BytesOf(Tail(chunks), i)

\* C17: stopRecording in state Recording leads to Idle, and the stop of
\* recorder i releases the stream it recorded and submits exactly one audio
\* request, carrying the bytes recorder i accumulated since its start
C17_StopReleasesAndSubmitsOnce ==
    [][ /\ (isRecording /\ \E i \in StreamIds :
                recorders[i] = "recording" /\ recorders'[i] = "stopping")
            => ~isRecording'
        /\ \A i \in StreamIds :
            (recorders[i] = "stopped" /\ recorders'[i] = "inactive")
                => /\ streams'[i] = "ended"
                   /\ Cardinality(aInflight' \ aInflight) = 1
                   /\ \A req \in aInflight' \ aInflight :
                         /\ req.src = "recording"
                         /\ req.size = BytesOf(audioChunksRef, i) ]_vars


\* C20: no audio payload larger than 25 MB is handed to processAudio, neither
\* from the file upload nor from the recorder
C20_NoOversizedPayloadSent == \A req \in aInflight : req.size <= maxSize


\* C19: when getUserMedia is denied, startRecording reports the error through
\* onError and leaves the capture as it was (isRecording, timer, stream and
\* recorder untouched: Idle stays Idle); a later startRecording can succeed
C19_DeniedIsReportedAndRecoverable ==
    [][ \A i \in StreamIds :
          (streams[i] = "pending" /\ streams'[i] = "denied")
              => /\ error' = "Failed to access microphone. Please check permissions."
                 /\ isRecording' = isRecording
                 /\ timers' = timers
                 /\ timerRef' = timerRef
                 /\ streamRef' = streamRef
                 /\ mediaRecorderRef' = mediaRecorderRef
                 /\ recorders' = recorders
                 /\ \A j \in StreamIds : streams'[j] = "live" => streams[j] = "live"
                 /\ (~isRecording /\ timers = {} /\ streamRef = 0)
                        => (~isRecording' /\ timers' = {} /\ streamRef' = 0) ]_vars

\* the microphone was denied to one startRecording and granted to a later
\* one, which is recording
C19_Witness ==
    \E i, j \in StreamIds :
        /\ i < j
        /\ streams[i] = "denied"
        /\ streams[j] = "live"
        /\ recorders[j] = "recording"
        /\ isRecording
        /\ streamRef = j


\* the requests a step starts
NewAudioRequests == aInflight' \ aInflight

\* C21: handleFile starts a request exactly for a file whose type starts with
\* "audio/" and whose size is at most 25 * 1024 * 1024 (exactly 25 MB is
\* accepted); a rejected file calls onError, for the type before the size,
\* and never onProcessingStart
C21_FileAcceptedIffAudioAndSmall ==
    [][ /\ \A req \in NewAudioRequests :
              req.src = "file"
                  => /\ lastFile'.type[1] = "audio/"
                     /\ lastFile'.size <= 25 * 1024 * 1024
                     /\ req.size = lastFile'.size
        /\ lastFile' # lastFile
              => IF lastFile'.type[1] = "audio/" /\ lastFile'.size <= 25 * 1024 * 1024
                 THEN /\ \E req \in NewAudioRequests : req.src = "file"
                      /\ aIsProcessing' /\ error' = "" /\ response' = <<>>
                 ELSE /\ NewAudioRequests = {}
                      /\ aNreq' = aNreq
                      /\ ~aIsProcessing'
                      /\ response' = response
                      /\ error' = IF lastFile'.type[1] # "audio/"
                                  THEN "Please select an audio file (MP3, WAV, M4A, etc.)"
                                  ELSE "File size must be less than 25MB" ]_vars

\* a file of exactly 25 MB was sent, and an audio file one byte larger was
\* turned away
C21_Witness ==
    /\ \E req \in aInflight : req.src = "file" /\ req.size = maxSize
    /\ \/ lastFile.size = maxSize
       \/ lastFile.size = maxSize + 1 /\ lastFile.type[1] = "audio/"
                                      /\ error = "File size must be less than 25MB"


\* C22: a partial-transcript event (onresult, forwarded to handleTranscript)
\* appends nothing to the log and leaves isProcessing and the requests as
\* they are, also while a submission is in flight
C22_PartialTranscriptLeavesLogAndBusy ==
    [][ (transcript' # transcript /\ transcript' # <<>>)
            => /\ messages' = messages
               /\ isProcessing' = isProcessing
               /\ showWelcome' = showWelcome
               /\ inflight' = inflight
               /\ nreq' = nreq ]_vars

\* a partial transcript has arrived while a submission is in flight
C22_Witness ==
    /\ isProcessing
    /\ inflight # {}
    /\ Len(messages) = 1
    /\ transcript # <<>>


\* C23: after a failed status fetch online is false, the capability list is
\* empty and emailConfigured is false, and the failure changes neither
\* isProcessing nor the log, before, during or after a submission
C23_FailedStatusLeavesOfflineAndEmpty ==
    [][ /\ statusFetch' = "failed"
              => /\ ~isOnline'
                 /\ capabilities' = <<>>
                 /\ ~emailConfigured'
        /\ (statusFetch = "pending" /\ statusFetch' = "failed")
              => /\ isProcessing' = isProcessing
                 /\ messages' = messages
                 /\ inflight' = inflight ]_vars

\* the status fetch has failed while a submission was in flight
C23_Witness ==
    /\ statusFetch = "failed"
    /\ isProcessing
    /\ inflight # {}
    /\ ~isOnline

\* C24: the status is fetched once: no further getAgentStatus call is made,
\* online, emailConfigured and capabilities change only in the step in which
\* that fetch settles, and never after it
C24_StatusFetchedOnce ==
    [][ /\ statusRequests = 1 /\ statusRequests' = 1
        /\ << capabilities, isOnline, emailConfigured >>'
               # << capabilities, isOnline, emailConfigured >>
              => statusFetch = "pending" /\ statusFetch' # "pending"
        /\ statusFetch # "pending" => statusFetch' = statusFetch ]_vars

\* the status has settled as online, and a round trip has completed after it
C24_Witness ==
    /\ statusFetch = "ok"
    /\ isOnline
    /\ capabilities # <<>>
    /\ Len(messages) = 2
    /\ ~isProcessing


\* C25: the session starts not processing, with an empty log and the welcome
\* view; the welcome view is displayed exactly while the log is empty, and
\* once hidden it does not come back
C25_WelcomeIffLogEmpty ==
    [][ /\ nreq = 0 => (~isProcessing /\ messages = <<>> /\ WelcomeDisplayed)
        /\ WelcomeDisplayed <=> messages = <<>>
        /\ WelcomeDisplayed' <=> messages' = <<>>
        /\ ~WelcomeDisplayed => ~WelcomeDisplayed' ]_vars

\* the first message has been appended and the welcome view is hidden
C25_Witness ==
    /\ Len(messages) = 1
    /\ ~showWelcome
    /\ ~WelcomeDisplayed

\* C29: the thinking indicator is displayed exactly while isProcessing is
\* true, then with the welcome view hidden; it is no entry of the log, which
\* holds the user and agent messages appended and nothing else
C29_ThinkingIsNotALogEntry ==
    /\ ThinkingDisplayed <=> isProcessing
    /\ isProcessing => ~WelcomeDisplayed
    /\ \A i \in 1 .. Len(messages) : messages[i].type \in { "user", "agent" }
    /\ Len(messages) = nreq + completed

\* the indicator is displayed below the one message of the log
C29_Witness ==
    /\ ThinkingDisplayed
    /\ Len(messages) = 1
    /\ messages[1].type = "user"


\* C26: after a successful round trip the agent message carries the backend
\* response unmodified: its text is the response's message, its agentData the
\* response, and for email_sent the card shows the parsed to, subject, body
C26_AgentMessageCarriesResponse ==
    (ev.op = "resume" /\ ev.raw.kind = "ok" /\ ev.raw.data \in AgentResponses)
        => /\ messages # <<>>
           /\ Last(messages).type = "agent"
           /\ Last(messages).text = << ev.raw.data.message >>
           /\ Last(messages).agentData = ev.raw.data
           /\ ev.raw.data.action = "email_sent"
                 => EmailCard(Last(messages)) =
                        [shown |-> TRUE, to |-> ev.raw.data.parsed.to,
                         subject |-> ev.raw.data.parsed.subject,
                         body |-> ev.raw.data.parsed.body]
           /\ ev.raw.data.action # "email_sent"
                 => ~EmailCard(Last(messages)).shown

\* a round trip has ended with an email_sent response, shown with its card
C26_Witness ==
    /\ ev.op = "resume"
    /\ ev.raw.kind = "ok"
    /\ ev.raw.data.action = "email_sent"
    /\ EmailCard(Last(messages)).shown
    /\ EmailCard(Last(messages)).to = "john@example.com"


\* C27: the displayed log is emptied only by the explicit clear: a step that
\* removes the displayed response empties the whole log (the transcription
\* with it) and is no submission, so it starts no request and does not turn
\* the processing flag on
C27_LogEmptiedOnlyByClear ==
    [][(response # <<>> /\ response' = <<>>)
          => /\ transcription' = <<>>
             /\ NewAudioRequests = {}
             /\ aIsProcessing' = aIsProcessing]_vars


\* C28: the round trip is a bounded wait: whenever a request is pending, also
\* one the backend never answers, a state follows in which no request is
\* pending, the orchestrator is Ready and an agent message ends the log
C28_PendingRequestEventuallyResolves ==
    (inflight # {}) ~> (/\ inflight = {}
                        /\ ~isProcessing
                        /\ messages # <<>>
                        /\ Last(messages).type = "agent")


\* the microphone streams that are capturing
LiveStreams == { i \in StreamIds : streams[i] = "live" }

\* the recorders whose stop event is still to come; only that event
\* (part_001 54-67) releases a stream while the component is mounted, one
\* stream per event
StoppableRecorders ==
    { i \in StreamIds : recorders[i] \in { "recording", "stopping", "stopped" } }

\* more streams are capturing than stop events can still release
MicrophoneStuck == Cardinality(LiveStreams) > Cardinality(StoppableRecorders)

\* the audio app is idle: no capture, no acquisition, no request under way
AudioRecovered ==
    /\ mounted
    /\ ~isRecording
    /\ ~aIsProcessing
    /\ \A i \in StreamIds : streams[i] \notin { "pending", "live" }

\* once stuck, the microphone stays stuck for as long as the app is mounted,
\* so no idle state is reachable from a stuck one
MicrophoneStuckStays == [][(MicrophoneStuck /\ mounted') => MicrophoneStuck']_vars

MicrophoneStuckIsNotRecovered == MicrophoneStuck => ~AudioRecovered

\* C30: every error is recoverable: a state in which the audio app shows an
\* error is never a state from which no idle state (no capture active, not
\* processing, accepting a submission) can be reached
C30_ErrorStateCanRecover == (mounted /\ error # "") => ~MicrophoneStuck


\* C31: the listening flag matches the capture: while the recognizer held in
\* recognitionRef has started and has neither been stopped nor ended,
\* isListening is true; no callback of an earlier recognizer clears it
C31_ListeningFlagMatchesRecognizer ==
    (recognitionRef # 0 /\ recognizers[recognitionRef] = "active")
        => isListening


\* C32: a file that handleFile rejects (wrong type or too large) starts no
\* request and leaves isProcessing as it was; in particular isProcessing
\* stays true while an earlier request is in flight
C32_RejectedFileLeavesBusy ==
    [][ (/\ lastFile' # lastFile
         /\ \/ lastFile'.type[1] # "audio/"
            \/ lastFile'.size > 25 * 1024 * 1024)
            => /\ NewAudioRequests = {}
               /\ aIsProcessing' = aIsProcessing ]_vars


\* recognizer id ends on its own: its error or end event arrives although
\* stopListening has not stopped it
EndsOnItsOwn(id) ==
    /\ recognizers[id] \in { "starting", "active", "errored" }
    /\ recognizers'[id] \in { "errored", "ended" }
    /\ recognizers'[id] # recognizers[id]

\* every recognizer but id has ended or failed, at least one of them
OthersOver(id) ==
    /\ \A j \in RecognizerIds \ { id } : recognizers[j] \in { "none", "errored", "ended" }
    /\ \E j \in RecognizerIds \ { id } : recognizers[j] \in { "errored", "ended" }

\* C33: a session that ends on its own (onerror, onend) leaves Idle behind and
\* submits nothing: log, isProcessing and requests are unchanged; onstart of a
\* later session empties the transcript, and a later session that has not
\* heard anything yet submits nothing of what an ended session left
C33_OwnEndSubmitsNothing ==
    [][ \A id \in RecognizerIds :
          /\ EndsOnItsOwn(id)
                => /\ ~isListening'
                   /\ messages' = messages
                   /\ isProcessing' = isProcessing
                   /\ nreq' = nreq
                   /\ delivered' = delivered
          /\ (recognizers[id] = "starting" /\ recognizers'[id] = "active")
                => transcript' = <<>>
          /\ (recognizers[id] = "starting" /\ OthersOver(id))
                => /\ delivered'[id] = delivered[id]
                   /\ nreq' = nreq ]_vars


\* the transcripts of a result list, one after the other
RECURSIVE Flatten(_)
Flatten(results) ==
    IF results = <<>> THEN <<>>
    ELSE Head(results).transcript \o Flatten(Tail(results))

\* the results of an event from resultIndex on
FromResultIndex(event) ==
    SubSeq(event.results, event.resultIndex, Len(event.results))

IsFinalResult(r) == r.isFinal
IsInterimResult(r) == ~r.isFinal

\* C34: a result event replaces the live transcript: it becomes the final
\* results from resultIndex on, concatenated, or, if that is empty, the
\* interim results from resultIndex on, concatenated; onTranscript gets the
\* same value; nothing of the earlier transcript or results is kept
C34_ResultReplacesTranscript ==
    lastResult # NoResult
        => LET finals == Flatten(SelectSeq(FromResultIndex(lastResult), IsFinalResult))
               interims == Flatten(SelectSeq(FromResultIndex(lastResult), IsInterimResult))
           IN  /\ transcript = (IF finals # <<>> THEN finals ELSE interims)
               /\ lastResult.passed = transcript

\* a result event whose first result, final "a", lies before resultIndex has
\* replaced the displayed transcript "a" by "b"
C34_Witness ==
    /\ lastResult # NoResult
    /\ lastResult.resultIndex = 2
    /\ lastResult.results[1] = [isFinal |-> TRUE, transcript |-> << "a" >>]
    /\ rTranscript = << "a" >>
    /\ transcript = << "b" >>
    /\ lastResult.passed = << "b" >>


\* C35: handleSubmit ignores empty and whitespace-only text in every state:
\* no message, no request, isProcessing and the welcome view unchanged; an
\* appended user message carries the text handleSubmit was called with, and
\* every user message in the log has non-blank text
C35_BlankTextIsIgnored ==
    /\ [][ /\ (SubmitStep /\ Trim(ev'.text) = <<>>)
                => /\ messages' = messages
                   /\ inflight' = inflight
                   /\ nreq' = nreq
                   /\ isProcessing' = isProcessing
                   /\ showWelcome' = showWelcome
           /\ (SubmitStep /\ messages' # messages)
                => /\ Last(messages').type = "user"
                   /\ Last(messages').text = ev'.text ]_vars
    /\ [](\A i \in 1 .. Len(messages) :
            messages[i].type = "user" => Trim(messages[i].text) # <<>>)

\* a whitespace-only submit was made in state Ready with a round trip in the
\* log, whose user message keeps the leading blank it was submitted with
C35_Witness ==
    /\ ev.op = "handleSubmit"
    /\ ev.text = << " " >>
    /\ ~isProcessing
    /\ ~rIsProcessing
    /\ Len(messages) = 2
    /\ messages[1].text = << " ", "b" >>
    /\ inflight = {}


\* a step of handleTextSubmit
TextSubmitStep ==
    /\ textEv'.op = "handleTextSubmit"
    /\ textEv' # textEv \/ textInput' # textInput \/ nreq' # nreq

\* C36: typed text is not lost by a rejected submit: handleTextSubmit calls
\* onSubmit with the trimmed text and clears the input only when the text is
\* non-blank and its isProcessing is false, and that call is accepted; else
\* it calls nothing and the input keeps its text
C36_RejectedSubmitKeepsText ==
    [][ TextSubmitStep
          => IF Trim(rTextInput) # <<>> /\ ~rIsProcessing
             THEN /\ textEv'.called = << Trim(rTextInput) >>
                  /\ textInput' = <<>>
                  /\ Len(messages') = Len(messages) + 1
                  /\ Last(messages').type = "user"
                  /\ Last(messages').text = Trim(rTextInput)
             ELSE /\ textEv'.called = <<>>
                  /\ textInput' = textInput
                  /\ messages' = messages
                  /\ nreq' = nreq ]_vars

\* Enter on a whitespace-only input after an earlier typed command was
\* submitted: nothing was called and the blank stays in the input
C36_Witness ==
    /\ textEv = TextEvent("handleTextSubmit", <<>>)
    /\ rTextInput = << " " >>
    /\ textInput = << " " >>
    /\ Len(messages) >= 1
    /\ messages[1].text = << "b" >>


\* C37: in the audio app a displayed response is paired with the
\* transcription of the same round trip: whenever the response is non-empty,
\* transcription and response are those of one processAudio request
C37_ResponsePairedWithItsTranscription ==
    response # <<>>
        => \E rid \in 1 .. MaxAudioRequests :
              /\ response = << "R", rid >>
              /\ transcription = << "T", rid >>

\* the second round trip is displayed, after the first one was
C37_Witness ==
    /\ response = << "R", 2 >>
    /\ transcription = << "T", 2 >>
    /\ aInflight = {}
    /\ ~aIsProcessing


\* C38: ChatMessage renders by action as a closed case analysis: the badge
\* is Email Sent for email_sent, Failed for email_failed, More Info Needed
\* for need_more_info and absent otherwise (chat_response, any other action,
\* no agentData); the email card is shown iff the action is email_sent and
\* parsed is present; user messages and error messages get neither
C38_RenderingByActionIsClosed ==
    \A i \in 1 .. Len(messages) :
        LET m == messages[i]
            badge == GetActionBadge(m)
        IN  /\ m.agentData.action = "email_sent" => badge = "Email Sent"
            /\ m.agentData.action = "email_failed" => badge = "Failed"
            /\ m.agentData.action = "need_more_info" => badge = "More Info Needed"
            /\ m.agentData.action \notin { "email_sent", "email_failed", "need_more_info" }
                  => badge = "none"
            /\ EmailCard(m).shown
                  <=> (m.agentData.action = "email_sent" /\ m.agentData.parsed # NoParsed)
            /\ (m.type = "user" \/ m.agentData = NoData)
                  => (badge = "none" /\ ~EmailCard(m).shown)

\* the log shows an email_sent answer without parsed (badge, no card), then
\* an answer with an action the renderer does not know
C38_Witness ==
    /\ Len(messages) = 4
    /\ messages[2].agentData.action = "email_sent"
    /\ messages[2].agentData.parsed = NoParsed
    /\ GetActionBadge(messages[2]) = "Email Sent"
    /\ ~EmailCard(messages[2]).shown
    /\ messages[4].agentData.action = "weather_report"
    /\ GetActionBadge(messages[4]) = "none"

====
